---- MODULE Spec2Model ----
(***************************************************************************)
(* Model of the `req` command of nak (src/req.go): filter building from    *)
(* flags and piped lines, relay setup and teardown, the per-line loop, the *)
(* NIP-42 auth handler and the paginated subscription strategy.            *)
(*                                                                         *)
(* Strings are sequences of one-character strings, so that strings.Split   *)
(* and len() are computed and not assumed.                                 *)
(***************************************************************************)
EXTENDS Integers, Sequences, FiniteSets, TLC

VARIABLES
    c,          \* the parsed command line (*cli.Command): flag values
    lines,      \* what getStdinLinesOrBlank() will yield, in order
    requested,  \* c.Args(): the relay addresses given
    pc,         \* position of Action: "start", "loop", "sub", "exited"
    relays,     \* relays returned by connectToAllRelays
    open,       \* relay connections currently open
    idx,        \* number of lines taken from getStdinLinesOrBlank() so far
    lineError,  \* ctx carries the line-processing-error mark
    filter,     \* the filter built for the current line
    out,        \* what stdout() has written, in order (read: lines taken by then)
    subs,       \* every subscription issued: line, relays, filter, events, closed
    outcome,    \* how the invocation ended
    tagErrLine, \* the line on which `invalid --tag` was returned (0: none)
    rejected,   \* lines skipped by lineProcessingError
    reachable,  \* the addresses among `requested` that accept a connection
    authLog,    \* one record per call of the auth handler
    pg          \* state of the paginated strategy

vars == <<c, lines, requested, pc, relays, open, idx, lineError, filter, out,
          subs, outcome, tagErrLine, rejected, reachable, authLog, pg>>

----------------------------------------------------------------------------
(* Bounds *)

MaxTagFlags == 2    \* number of --tag flags on the command line
MaxLines == 3       \* number of piped lines
MaxEvents == 2      \* events one subscription delivers
MaxChallenges == 3  \* AuthChallenges raised in one run
MaxRounds == 5      \* pagination rounds when nothing else stops it

----------------------------------------------------------------------------
(* Strings *)

Min(a, b) == IF a < b THEN a ELSE b

\* strings.Split(s, sep) for a one-character separator
RECURSIVE Split(_, _)
Split(s, sep) ==
    IF \E i \in 1..Len(s) : s[i] = sep
    THEN LET i == CHOOSE k \in 1..Len(s) :
                     s[k] = sep /\ \A j \in 1..(k - 1) : s[j] # sep
         IN  <<SubSeq(s, 1, i - 1)>> \o Split(SubSeq(s, i + 1, Len(s)), sep)
    ELSE <<s>>

\* the test of line 219 on the split flag, dropping the key-length condition
TagFlagOKAnyKey(spl) == Len(spl) = 2

\* line 219: len(spl) == 2 && len(spl[0]) == 1
TagFlagOK(spl) == Len(spl) = 2 /\ Len(spl[1]) = 1

----------------------------------------------------------------------------
(* The filter (nostr.Filter) and the overrides *)

\* an optional value (a nil-able pointer): <<>> or <<v>>
None == <<>>
Some(v) == <<v>>

EmptyFilter ==
    [Authors |-> <<>>, IDs |-> <<>>, Kinds |-> <<>>, Search |-> <<>>,
     Tags |-> <<>>, Since |-> None, Until |-> None,
     Limit |-> 0, LimitZero |-> FALSE]

\* lines 216-224: the generic --tag flags, in order; err at the first bad one
RECURSIVE ParseTagFlags(_)
ParseTagFlags(flags) ==
    IF flags = <<>> THEN [err |-> FALSE, tags |-> <<>>]
    ELSE LET spl == Split(Head(flags), "=")
         IN  IF TagFlagOK(spl)
             THEN LET rest == ParseTagFlags(Tail(flags))
                  IN  [err |-> rest.err, tags |-> <<spl>> \o rest.tags]
             ELSE [err |-> TRUE, tags |-> <<>>]

\* lines 225-233: one shortcut flag's values as tags of key k
Shortcut(k, vals) == [i \in 1..Len(vals) |-> <<<<k>>, vals[i]>>]

\* lines 225-233 with the shortcut tags put before the generic --tag ones
CollectTagsShortcutsFirst(generic, cl) ==
    Shortcut("e", cl.e) \o Shortcut("p", cl.p) \o Shortcut("d", cl.d) \o generic

\* lines 216-233: the list `tags`: generic flags, then e, then p, then d
CollectTags(generic, cl) ==
    generic \o Shortcut("e", cl.e) \o Shortcut("p", cl.p) \o Shortcut("d", cl.d)

\* lines 239-244: append each tag's value to the list of its key
RECURSIVE MergeTags(_, _)
MergeTags(tagMap, tags) ==
    IF tags = <<>> THEN tagMap
    ELSE LET k == Head(tags)[1]
             v == Head(tags)[2]
             old == IF k \in DOMAIN tagMap THEN tagMap[k] ELSE <<>>
             new == [x \in (DOMAIN tagMap) \cup {k} |->
                        IF x = k THEN Append(old, v) ELSE tagMap[x]]
         IN  MergeTags(new, Tail(tags))

\* lines 256-260: the limit override
ApplyLimit(f, cl) ==
    IF cl.limit # 0 THEN [f EXCEPT !.Limit = cl.limit]
    ELSE IF cl.limitSet THEN [f EXCEPT !.LimitZero = TRUE]
    ELSE f

\* lines 204-260: the filter built from a base filter and the flags
BuildFilter(base, cl) ==
    LET f1 == [base EXCEPT
                  !.Authors = base.Authors \o cl.author,
                  !.IDs = base.IDs \o cl.id,
                  !.Kinds = base.Kinds \o cl.kind,
                  !.Search = IF cl.search # <<>> THEN cl.search ELSE base.Search]
        parsed == ParseTagFlags(cl.tag)
        tags == CollectTags(parsed.tags, cl)
        f2 == [f1 EXCEPT !.Tags = MergeTags(f1.Tags, tags)]
        f3 == [f2 EXCEPT
                  !.Since = IF cl.since # None THEN cl.since ELSE f2.Since,
                  !.Until = IF cl.until # None THEN cl.until ELSE f2.Until]
    IN  IF parsed.err THEN [err |-> TRUE, filter |-> f1]
        ELSE [err |-> FALSE, filter |-> ApplyLimit(f3, cl)]

----------------------------------------------------------------------------
(* Inputs *)

Str_spam == <<"s", "p", "a", "m">>
Str_spam2 == <<"s", "p", "a", "m", "2">>
Key_e == <<"e">>
Key_t == <<"t">>

T_spam == <<"t", "=">> \o Str_spam
T_spam2 == <<"t", "=">> \o Str_spam2
T_e_a == <<"e", "=", "a">>
T_noEq == <<"t", "a">>
T_longKey == <<"t", "t", "=", "a">>
T_twoEq == <<"t", "=", "a", "=", "b">>
T_noKey == <<"=", "a">>

TagFlagChoices == {T_spam, T_spam2, T_e_a, T_noEq, T_longKey, T_twoEq, T_noKey}

SeqsUpTo(S, n) == UNION {[1..k -> S] : k \in 0..n}

NoFlags ==
    [author |-> <<>>, id |-> <<>>, kind |-> <<>>, search |-> <<>>,
     tag |-> <<>>, e |-> <<>>, p |-> <<>>, d |-> <<>>,
     since |-> None, until |-> None, limitSet |-> FALSE, limit |-> 0,
     stream |-> FALSE, paginate |-> FALSE, bare |-> FALSE,
     auth |-> FALSE, fpa |-> FALSE]

PlainOverrides ==
    {NoFlags,
     [NoFlags EXCEPT !.author = <<"A1">>, !.id = <<"I1">>, !.kind = <<1>>,
                     !.search = <<"q">>, !.since = Some(10), !.until = Some(20)]}

LimitOverrides == {<<FALSE, 0>>, <<TRUE, 0>>, <<TRUE, 5>>}

BuildFlagSets ==
    {[pl EXCEPT !.tag = tg, !.e = ev, !.p = pv, !.d = dv,
                !.limitSet = lm[1], !.limit = lm[2]] :
        pl \in PlainOverrides, tg \in SeqsUpTo(TagFlagChoices, MaxTagFlags),
        ev \in {<<>>, <<<<"x">>>>, <<<<"x">>, <<"y">>>>},
        pv \in {<<>>, <<<<"x">>>>}, dv \in {<<>>, <<<<"x">>>>},
        lm \in LimitOverrides}

\* filters a piped line can decode to (limit 0 in the JSON sets LimitZero)
BaseTagMaps ==
    {<<>>,
     [k \in {Key_e} |-> <<<<"v">>>>],
     [k \in {Key_e, Key_t} |-> IF k = Key_e THEN <<<<"v">>, <<"w">>>> ELSE <<<<"z">>>>]}

BaseFilters ==
    {[EmptyFilter EXCEPT !.Tags = tm, !.Limit = lm[2], !.LimitZero = lm[1],
                         !.Since = sn] :
        tm \in BaseTagMaps, lm \in {<<FALSE, 0>>, <<TRUE, 0>>, <<FALSE, 2>>},
        sn \in {None}}

BlankLine == [kind |-> "blank", filter |-> EmptyFilter]
BadLine == [kind |-> "bad", filter |-> EmptyFilter]
JsonLine(f) == [kind |-> "json", filter |-> f]

\* lines 196-202: the base filter of a line; err when the JSON is rejected
Unmarshal(line) ==
    [err |-> line.kind = "bad",
     filter |-> IF line.kind = "json" THEN line.filter ELSE EmptyFilter]

----------------------------------------------------------------------------
(* Filter building alone: one line, every combination of overrides *)

AuthIdle == <<>>
PgIdle == [state |-> "idle"]

InitBuild ==
    /\ c \in BuildFlagSets
    /\ lines \in {<<BlankLine>>} \cup {<<JsonLine(f)>> : f \in BaseFilters}
    /\ requested = {} /\ reachable = {}
    /\ pc = "loop" /\ relays = {} /\ open = {}
    /\ idx = 0 /\ lineError = FALSE
    /\ filter = EmptyFilter /\ out = <<>> /\ subs = <<>>
    /\ outcome = "running" /\ tagErrLine = 0 /\ rejected = {}
    /\ authLog = AuthIdle /\ pg = PgIdle

\* lines 196-260 for one line whose overrides are accepted
BuildOK ==
    /\ pc = "loop" /\ idx < Len(lines)
    /\ LET b == BuildFilter(Unmarshal(lines[idx + 1]).filter, c)
       IN  /\ ~b.err
           /\ filter' = b.filter
    /\ idx' = idx + 1
    /\ pc' = "built"
    /\ UNCHANGED <<c, lines, requested, reachable, relays, open, lineError, out,
                   subs, outcome, tagErrLine, rejected, authLog, pg>>

\* lines 216-223 for one line: `invalid --tag`
BuildErr ==
    /\ pc = "loop" /\ idx < Len(lines)
    /\ BuildFilter(Unmarshal(lines[idx + 1]).filter, c).err
    /\ idx' = idx + 1
    /\ tagErrLine' = idx + 1
    /\ outcome' = "error"
    /\ pc' = "exited"
    /\ UNCHANGED <<c, lines, requested, reachable, relays, open, lineError, out,
                   subs, filter, rejected, authLog, pg>>

NextBuild == BuildOK \/ BuildErr

SpecBuild == InitBuild /\ [][NextBuild]_vars

----------------------------------------------------------------------------
(* What the overrides mean, stated on the flag text and not through Split *)

\* exactly key=value with a one-character key: one "=", in second position
WellFormed(s) ==
    /\ Len(s) >= 2
    /\ s[1] # "=" /\ s[2] = "="
    /\ \A i \in 3..Len(s) : s[i] # "="

FlagKey(s) == <<s[1]>>
FlagValue(s) == SubSeq(s, 3, Len(s))

RECURSIVE GenericValues(_, _)
GenericValues(flags, k) ==
    IF flags = <<>> THEN <<>>
    ELSE (IF FlagKey(Head(flags)) = k THEN <<FlagValue(Head(flags))>> ELSE <<>>)
         \o GenericValues(Tail(flags), k)

ShortcutValues(k) ==
    IF k = <<"e">> THEN c.e
    ELSE IF k = <<"p">> THEN c.p
    ELSE IF k = <<"d">> THEN c.d
    ELSE <<>>

TagsOf(f, k) == IF k \in DOMAIN f.Tags THEN f.Tags[k] ELSE <<>>

AllKeys == {<<x>> : x \in {"e", "p", "d", "t", "a", "="}}

\* the base filter of the line being processed
CurrentBase == Unmarshal(lines[idx]).filter

----------------------------------------------------------------------------
(* C3 *)

\* C3: for every base filter the built filter's limit fields follow the
\* limit override: override 0 gives LimitZero with Limit unset, a positive
\* override n gives Limit = n without LimitZero, no override leaves both
\* fields as in the base filter.
C3_LimitFollowsOverride ==
    pc = "built" =>
        /\ (c.limitSet /\ c.limit = 0) => (filter.LimitZero /\ filter.Limit = 0)
        /\ c.limit > 0 => (filter.Limit = c.limit /\ ~filter.LimitZero)
        /\ ~c.limitSet => /\ filter.Limit = CurrentBase.Limit
                          /\ filter.LimitZero = CurrentBase.LimitZero

----------------------------------------------------------------------------
(* C4 *)

\* C4: for every tag key k the built filter's tags[k] is the base filter's
\* tags[k], then the values of the generic tag overrides of key k in the
\* order given, then the values of the shortcut flag of k in the order given;
\* keys without override keep their base list, no key appears from nowhere,
\* and t=spam then t=spam2 on an empty base gives tags["t"] = [spam, spam2].
C4_TagMergeOrder ==
    pc = "built" =>
        /\ DOMAIN filter.Tags \subseteq AllKeys
        /\ \A k \in AllKeys :
              /\ TagsOf(filter, k) =
                    TagsOf(CurrentBase, k) \o GenericValues(c.tag, k)
                        \o ShortcutValues(k)
              /\ (GenericValues(c.tag, k) = <<>> /\ ShortcutValues(k) = <<>>)
                    => (k \in DOMAIN filter.Tags <=> k \in DOMAIN CurrentBase.Tags)
        /\ (CurrentBase.Tags = <<>> /\ c.tag = <<T_spam, T_spam2>>)
              => TagsOf(filter, Key_t) = <<Str_spam, Str_spam2>>

\* a base list, a generic override and a shortcut meet on key e
C4_Witness ==
    /\ pc = "built"
    /\ Len(TagsOf(CurrentBase, Key_e)) = 2
    /\ c.tag = <<T_spam, T_e_a>>
    /\ c.e = <<<<"x">>, <<"y">>>>
    /\ TagsOf(filter, Key_e) = <<<<"v">>, <<"w">>, <<"a">>, <<"x">>, <<"y">>>>
    /\ TagsOf(filter, Key_t) = <<<<"z">>, Str_spam>>

----------------------------------------------------------------------------
(* The whole Action: setup, the loop over the piped lines, teardown *)

ExitNoRelays == 3

Addresses == {"r1", "r2"}

Mode(cl) == IF cl.paginate THEN "paginate" ELSE IF cl.stream THEN "stream" ELSE "eose"

MainFlagSets ==
    {[md EXCEPT !.tag = tg] :
        md \in {NoFlags,
                [NoFlags EXCEPT !.stream = TRUE, !.bare = TRUE],
                [NoFlags EXCEPT !.paginate = TRUE, !.limitSet = TRUE, !.limit = 5]},
        tg \in {<<>>, <<T_spam>>, <<T_spam, T_longKey>>}}

MainLines == {BlankLine, BadLine, JsonLine([EmptyFilter EXCEPT !.Limit = 2])}

Init ==
    /\ c \in MainFlagSets
    /\ lines \in UNION {[1..k -> MainLines] : k \in 1..MaxLines}
    /\ requested \in SUBSET Addresses
    /\ reachable \in SUBSET requested
    /\ pc = "start" /\ relays = {} /\ open = {}
    /\ idx = 0 /\ lineError = FALSE
    /\ filter = EmptyFilter /\ out = <<>> /\ subs = <<>>
    /\ outcome = "running" /\ tagErrLine = 0 /\ rejected = {}
    /\ authLog = AuthIdle /\ pg = PgIdle

\* line 151: no relay address given, nothing to connect
NoRelayArgs ==
    /\ pc = "start" /\ requested = {}
    /\ pc' = "loop"
    /\ UNCHANGED <<c, lines, requested, reachable, relays, open, idx, lineError,
                   filter, out, subs, outcome, tagErrLine, rejected, authLog, pg>>

\* lines 179-182 letting the run go on with no relay
ConnectNoneGoesOn ==
    /\ pc = "start" /\ requested # {} /\ reachable = {}
    /\ pc' = "loop"
    /\ UNCHANGED <<c, lines, requested, reachable, relays, open, idx, lineError,
                   filter, out, subs, outcome, tagErrLine, rejected, authLog, pg>>

\* lines 151-182: addresses given, none connected: os.Exit(3)
ConnectNone ==
    /\ pc = "start" /\ requested # {} /\ reachable = {}
    /\ outcome' = "noRelays"
    /\ pc' = "exited"
    /\ UNCHANGED <<c, lines, requested, reachable, relays, open, idx, lineError,
                   filter, out, subs, tagErrLine, rejected, authLog, pg>>

\* lines 151-192: the connected relays are kept, their close is deferred
ConnectSome ==
    /\ pc = "start" /\ requested # {} /\ reachable # {}
    /\ relays' = reachable
    /\ open' = reachable
    /\ pc' = "loop"
    /\ UNCHANGED <<c, lines, requested, reachable, idx, lineError, filter, out,
                   subs, outcome, tagErrLine, rejected, authLog, pg>>

\* lines 195-201 without the line-processing-error mark on ctx
RejectLineUnmarked ==
    /\ pc = "loop" /\ idx < Len(lines)
    /\ Unmarshal(lines[idx + 1]).err
    /\ idx' = idx + 1
    /\ rejected' = rejected \cup {idx + 1}
    /\ UNCHANGED <<c, lines, requested, reachable, pc, relays, open, lineError,
                   filter, out, subs, outcome, tagErrLine, authLog, pg>>

\* lines 195-201: the line is not a filter: mark ctx and go to the next line
RejectLine ==
    /\ pc = "loop" /\ idx < Len(lines)
    /\ Unmarshal(lines[idx + 1]).err
    /\ lineError' = TRUE
    /\ idx' = idx + 1
    /\ rejected' = rejected \cup {idx + 1}
    /\ UNCHANGED <<c, lines, requested, reachable, pc, relays, open, filter, out,
                   subs, outcome, tagErrLine, authLog, pg>>

\* lines 216-223: `invalid --tag`: Action returns the error, the deferred
\* close of lines 188-192 runs
TagError ==
    /\ pc = "loop" /\ idx < Len(lines)
    /\ ~Unmarshal(lines[idx + 1]).err
    /\ BuildFilter(Unmarshal(lines[idx + 1]).filter, c).err
    /\ idx' = idx + 1
    /\ tagErrLine' = idx + 1
    /\ outcome' = "error"
    /\ open' = {}
    /\ pc' = "exited"
    /\ UNCHANGED <<c, lines, requested, reachable, relays, lineError, filter, out,
                   subs, rejected, authLog, pg>>

\* lines 273-284: no relay: the filter is printed, bare or in a REQ envelope
PrintFilter ==
    /\ pc = "loop" /\ idx < Len(lines)
    /\ ~Unmarshal(lines[idx + 1]).err
    /\ relays = {}
    /\ LET b == BuildFilter(Unmarshal(lines[idx + 1]).filter, c)
       IN  /\ ~b.err
           /\ filter' = b.filter
           /\ out' = Append(out, [line |-> idx + 1, kind |-> "filter",
                                  envelope |-> ~c.bare, n |-> 0,
                                  read |-> idx + 1, filter |-> b.filter])
    /\ idx' = idx + 1
    /\ UNCHANGED <<c, lines, requested, reachable, pc, relays, open, lineError,
                   subs, outcome, tagErrLine, rejected, authLog, pg>>

\* lines 262-270 issuing the subscription without waiting for the one before
SubscribeConcurrent ==
    /\ pc \in {"loop", "sub"} /\ idx < Len(lines)
    /\ ~Unmarshal(lines[idx + 1]).err
    /\ relays # {}
    /\ LET b == BuildFilter(Unmarshal(lines[idx + 1]).filter, c)
       IN  /\ ~b.err
           /\ filter' = b.filter
           /\ subs' = Append(subs, [line |-> idx + 1, urls |-> relays,
                                    mode |-> Mode(c), filter |-> b.filter,
                                    sent |-> 0, closed |-> FALSE])
    /\ idx' = idx + 1
    /\ pc' = "sub"
    /\ UNCHANGED <<c, lines, requested, reachable, relays, open, lineError, out,
                   outcome, tagErrLine, rejected, authLog, pg>>

\* lines 262-270: the subscription of the line is issued to the connected relays
Subscribe ==
    /\ pc = "loop" /\ idx < Len(lines)
    /\ ~Unmarshal(lines[idx + 1]).err
    /\ relays # {}
    /\ LET b == BuildFilter(Unmarshal(lines[idx + 1]).filter, c)
       IN  /\ ~b.err
           /\ filter' = b.filter
           /\ subs' = Append(subs, [line |-> idx + 1, urls |-> relays,
                                    mode |-> Mode(c), filter |-> b.filter,
                                    sent |-> 0, closed |-> FALSE])
    /\ idx' = idx + 1
    /\ pc' = "sub"
    /\ UNCHANGED <<c, lines, requested, reachable, relays, open, lineError, out,
                   outcome, tagErrLine, rejected, authLog, pg>>

\* lines 270-272: one event of the running subscription is written
Event ==
    /\ pc = "sub"
    /\ LET k == Len(subs)
       IN  /\ subs[k].sent < MaxEvents
           /\ out' = Append(out, [line |-> subs[k].line, kind |-> "event",
                                  envelope |-> FALSE, n |-> subs[k].sent + 1,
                                  read |-> idx, filter |-> subs[k].filter])
           /\ subs' = [subs EXCEPT ![k].sent = @ + 1]
    /\ UNCHANGED <<c, lines, requested, reachable, pc, relays, open, idx,
                   lineError, filter, outcome, tagErrLine, rejected, authLog, pg>>

\* line 270: the channel of fn is closed (every relay signalled the end, the
\* pagination stopped, or the stream was cancelled): the range loop ends
SubDone ==
    /\ pc = "sub"
    /\ subs' = [subs EXCEPT ![Len(subs)].closed = TRUE]
    /\ pc' = "loop"
    /\ UNCHANGED <<c, lines, requested, reachable, relays, open, idx, lineError,
                   filter, out, outcome, tagErrLine, rejected, authLog, pg>>

\* line 287: a line was rejected: the process exits there, Action never
\* returns and the deferred close of lines 188-192 does not run
ExitLineError ==
    /\ pc = "loop" /\ idx = Len(lines)
    /\ lineError
    /\ outcome' = "lineError"
    /\ pc' = "exited"
    /\ UNCHANGED <<c, lines, requested, reachable, relays, open, idx, lineError,
                   filter, out, subs, tagErrLine, rejected, authLog, pg>>

\* lines 287-288 and 188-192: return nil, the deferred close runs
ReturnNil ==
    /\ pc = "loop" /\ idx = Len(lines)
    /\ ~lineError
    /\ outcome' = "ok"
    /\ open' = {}
    /\ pc' = "exited"
    /\ UNCHANGED <<c, lines, requested, reachable, relays, idx, lineError, filter,
                   out, subs, tagErrLine, rejected, authLog, pg>>

Next ==
    \/ NoRelayArgs \/ ConnectNone \/ ConnectSome
    \/ RejectLine \/ TagError \/ PrintFilter \/ Subscribe
    \/ Event \/ SubDone
    \/ ExitLineError \/ ReturnNil

Spec == Init /\ [][Next]_vars

----------------------------------------------------------------------------
(* Reading the run *)

\* how the process ends for the shell; only the first code is set in req.go
ExitStatus(o) ==
    CASE o = "noRelays" -> ExitNoRelays
      [] o = "ok" -> 0
      [] OTHER -> 1

LineOK(i) == ~Unmarshal(lines[i]).err

\* the filter of line i was printed, or its subscription was issued
Processed(i) ==
    \/ \E k \in 1..Len(out) : out[k].line = i /\ out[k].kind = "filter"
    \/ \E k \in 1..Len(subs) : subs[k].line = i

Untouched(i) ==
    /\ \A k \in 1..Len(out) : out[k].line # i
    /\ \A k \in 1..Len(subs) : subs[k].line # i

SomeMalformedTag == \E k \in 1..Len(c.tag) : ~WellFormed(c.tag[k])

FirstOKLine ==
    IF \E i \in 1..Len(lines) : LineOK(i)
    THEN CHOOSE i \in 1..Len(lines) :
             LineOK(i) /\ \A j \in 1..(i - 1) : ~LineOK(j)
    ELSE 0

----------------------------------------------------------------------------
(* C1 *)

\* C1 as stated: a malformed tag override aborts only the line on which the
\* error is raised: every other line that decodes is still processed (its
\* filter printed or its subscription run).
C1_TagErrorAbortsLineOnly ==
    (pc = "exited" /\ tagErrLine # 0) =>
        \A i \in 1..Len(lines) : (i # tagErrLine /\ LineOK(i)) => Processed(i)

\* C1 amended: a malformed tag override aborts the whole invocation. The error
\* is returned on the first line that decodes (blank or valid JSON); no line
\* gets its filter printed or a subscription, and no later line is read.
C1_TagErrorAbortsInvocation ==
    /\ SomeMalformedTag => (out = <<>> /\ subs = <<>>)
    /\ (SomeMalformedTag /\ pc = "exited" /\ outcome # "noRelays"
            /\ FirstOKLine # 0)
          => /\ outcome = "error"
             /\ tagErrLine = FirstOKLine
             /\ idx = tagErrLine
    /\ tagErrLine # 0 => (SomeMalformedTag /\ pc = "exited" /\ outcome = "error")

\* the error is returned on line 2 of 3, line 3 decodes and is never read
C1_Witness ==
    /\ pc = "exited" /\ tagErrLine = 2
    /\ Len(lines) = 3 /\ LineOK(3) /\ idx = 2
    /\ ~Processed(3)

----------------------------------------------------------------------------
(* C2 *)

\* C2: a piped line that is not valid filter JSON produces no output and opens
\* no subscription, the lines after it are still taken and processed, and when
\* the loop has gone through the last line the invocation reports failure if
\* and only if at least one line was rejected.
C2_InvalidJSONSkipsLine ==
    /\ \A i \in 1..idx : (i \in rejected <=> ~LineOK(i))
    /\ \A i \in rejected : Untouched(i)
    /\ (pc = "exited" /\ outcome \in {"ok", "lineError"})
          => /\ idx = Len(lines)
             /\ \A i \in 1..Len(lines) : LineOK(i) => Processed(i)
             /\ (ExitStatus(outcome) # 0 <=> rejected # {})
             /\ (outcome = "lineError" <=> \E i \in 1..Len(lines) : ~LineOK(i))

\* line 2 of 3 was rejected, lines 1 and 3 were processed, the exit reports it
C2_Witness ==
    /\ pc = "exited" /\ outcome = "lineError"
    /\ Len(lines) = 3 /\ rejected = {2}
    /\ Processed(1) /\ Processed(3) /\ Untouched(2)

----------------------------------------------------------------------------
(* C5 *)

\* C5: when relay addresses are given and none connects, the invocation ends
\* with exit code 3 before any line is read, any filter built or anything
\* written; when some connect, subscriptions go to the connected ones only.
C5_NoRelaysConnectedIsFatal ==
    /\ (pc # "start" /\ requested # {} /\ reachable = {})
          => /\ pc = "exited" /\ outcome = "noRelays"
             /\ ExitStatus(outcome) = 3
             /\ idx = 0 /\ out = <<>> /\ subs = <<>> /\ filter = EmptyFilter
    /\ outcome = "noRelays" => (requested # {} /\ reachable = {})
    /\ open \subseteq reachable
    /\ \A k \in 1..Len(subs) :
          subs[k].urls = reachable /\ subs[k].urls # {}

\* two addresses given, none reachable, three lines waiting
C5_Witness ==
    /\ pc = "exited" /\ outcome = "noRelays"
    /\ requested = Addresses /\ Len(lines) = 3

----------------------------------------------------------------------------
(* C6 *)

\* C6: every relay connection opened at setup is closed before the invocation
\* ends, on every exit path.
C6_AllClosedAtExit == pc = "exited" => open = {}

----------------------------------------------------------------------------
(* C9 *)

\* C9: piped filters are processed strictly sequentially: a subscription that
\* is not closed is the one of the last line read, so at most one is active;
\* every output of a line is written while that line is the last one read,
\* so outputs of two lines never interleave.
C9_StrictlySequential ==
    /\ \A k \in 1..Len(subs) :
          ~subs[k].closed => (k = Len(subs) /\ pc = "sub" /\ subs[k].line = idx)
    /\ \A k \in 1..Len(out) : out[k].line = out[k].read
    /\ \A a, b \in 1..Len(out) : a < b => out[a].line <= out[b].line
    /\ \A a, b \in 1..Len(subs) : a < b => subs[a].line < subs[b].line

\* the second line's subscription runs after the first one delivered and closed
C9_Witness ==
    /\ pc = "sub" /\ Len(subs) = 2
    /\ subs[1].closed /\ subs[1].sent = MaxEvents
    /\ subs[2].sent >= 1 /\ ~subs[2].closed

----------------------------------------------------------------------------
(* The auth handler given to connectToAllRelays (lines 153-178) *)

Unsigned == {}

\* what the handler meets when called: what
\* gatherSecretKeyOrBunkerFromArguments returns ("err", a secret, a bunker),
\* whether bunker.GetPublicKey succeeds, whether signing succeeds
AuthEnvs ==
    [gather : {"err", "sec", "bunker"}, pkOk : BOOLEAN, signOk : BOOLEAN]

\* lines 157-177 without the opt-in test of lines 154-156
AuthHandlerNoOptIn(cl, env) ==
    IF env.gather = "err" THEN [ok |-> FALSE, signedBy |-> Unsigned]
    ELSE IF env.gather = "bunker"
    THEN IF ~env.pkOk THEN [ok |-> FALSE, signedBy |-> Unsigned]
         ELSE IF env.signOk THEN [ok |-> TRUE, signedBy |-> {"bunker"}]
         ELSE [ok |-> FALSE, signedBy |-> Unsigned]
    ELSE IF env.signOk THEN [ok |-> TRUE, signedBy |-> {"sec"}]
         ELSE [ok |-> FALSE, signedBy |-> Unsigned]

\* lines 153-178: ok is `return nil`; signedBy is who put a signature on evt
AuthHandler(cl, env) ==
    IF ~cl.auth /\ ~cl.fpa THEN [ok |-> FALSE, signedBy |-> Unsigned]
    ELSE IF env.gather = "err" THEN [ok |-> FALSE, signedBy |-> Unsigned]
    ELSE IF env.gather = "bunker"
    THEN IF ~env.pkOk THEN [ok |-> FALSE, signedBy |-> Unsigned]
         ELSE IF env.signOk THEN [ok |-> TRUE, signedBy |-> {"bunker"}]
         ELSE [ok |-> FALSE, signedBy |-> Unsigned]
    ELSE IF env.signOk THEN [ok |-> TRUE, signedBy |-> {"sec"}]
         ELSE [ok |-> FALSE, signedBy |-> Unsigned]

AuthFlagSets ==
    {[NoFlags EXCEPT !.auth = a, !.fpa = f] : a \in BOOLEAN, f \in BOOLEAN}

InitAuth ==
    /\ c \in AuthFlagSets
    /\ lines = <<BlankLine>>
    /\ requested = {"r1"} /\ reachable = {"r1"}
    /\ pc = "sub" /\ relays = {"r1"} /\ open = {"r1"}
    /\ idx = 1 /\ lineError = FALSE
    /\ filter = EmptyFilter /\ out = <<>>
    /\ subs = <<[line |-> 1, urls |-> {"r1"}, mode |-> "eose",
                 filter |-> EmptyFilter, sent |-> 0, closed |-> FALSE]>>
    /\ outcome = "running" /\ tagErrLine = 0 /\ rejected = {}
    /\ authLog = AuthIdle /\ pg = PgIdle

\* a relay raises an AuthChallenge and the handler is called with the event
AuthChallenge ==
    /\ Len(authLog) < MaxChallenges
    /\ \E env \in AuthEnvs :
          authLog' = Append(authLog, [env |-> env, res |-> AuthHandler(c, env)])
    /\ UNCHANGED <<c, lines, requested, reachable, pc, relays, open, idx,
                   lineError, filter, out, subs, outcome, tagErrLine, rejected, pg>>

NextAuth == AuthChallenge

SpecAuth == InitAuth /\ [][NextAuth]_vars

----------------------------------------------------------------------------
(* C7 *)

\* C7: the auth handler is fail-closed: it returns success only if the
\* operator opted into auth (auth or force-pre-auth), the secret key or the
\* remote delegate was obtained without error, and the event was signed by
\* exactly one path (the delegate when there is one, else the local secret);
\* in every other case it returns an error and the event is left unsigned.
C7_AuthFailClosed ==
    \A k \in 1..Len(authLog) :
        LET env == authLog[k].env
            res == authLog[k].res
            want == /\ c.auth \/ c.fpa
                    /\ env.gather # "err"
                    /\ env.gather = "bunker" => env.pkOk
                    /\ env.signOk
        IN  /\ res.ok <=> want
            /\ res.ok => res.signedBy =
                            (IF env.gather = "bunker" THEN {"bunker"} ELSE {"sec"})
            /\ ~res.ok => res.signedBy = Unsigned

\* with --auth: a challenge signed by the delegate, one refused because no
\* key could be obtained, one signed with the local secret
C7_Witness ==
    /\ Len(authLog) = 3 /\ c.auth /\ ~c.fpa
    /\ authLog[1].res = [ok |-> TRUE, signedBy |-> {"bunker"}]
    /\ authLog[2].env.gather = "err" /\ ~authLog[2].res.ok
    /\ authLog[3].res = [ok |-> TRUE, signedBy |-> {"sec"}]

----------------------------------------------------------------------------
(* The paginated strategy (paginateWithPoolAndParams, called at line 265) *)

TsChoices == {60, 80, 90, 100}
EventsPerRound == {1, 2}

\* the next round's until, ignoring the previous one
NextUntilFromMinOnly(minTs, prevUntil) == minTs - 1

\* the next round's until: min(minTimestamp - 1, previousUntil - 1)
NextUntil(minTs, prevUntil) ==
    IF prevUntil = None THEN minTs - 1
    ELSE Min(minTs - 1, prevUntil[1] - 1)

InitPaginate ==
    /\ c = [NoFlags EXCEPT !.paginate = TRUE]
    /\ lines = <<BlankLine>>
    /\ requested = {"r1"} /\ reachable = {"r1"}
    /\ pc = "sub" /\ relays = {"r1"} /\ open = {"r1"}
    /\ idx = 1 /\ lineError = FALSE
    /\ filter = EmptyFilter /\ out = <<>>
    /\ subs = <<[line |-> 1, urls |-> {"r1"}, mode |-> "paginate",
                 filter |-> EmptyFilter, sent |-> 0, closed |-> FALSE]>>
    /\ outcome = "running" /\ tagErrLine = 0 /\ rejected = {}
    /\ authLog = AuthIdle
    /\ \E sn \in {None, Some(70), Some(98)}, un \in {None, Some(95)},
          lm \in {0, 3}, gl \in {0, 4} :
          pg = [state |-> "running", why |-> "", since |-> sn, until0 |-> un,
                until |-> un, limit |-> lm, globalLimit |-> gl, total |-> 0,
                used |-> <<>>, computed |-> <<>>, mins |-> <<>>]

PgRunning == pg.state = "running" /\ Len(pg.used) < MaxRounds

PgRest == <<c, lines, requested, reachable, pc, relays, open, idx, lineError,
            filter, out, subs, outcome, tagErrLine, rejected, authLog>>

\* stop (d): the round returns no event
PgRoundEmpty ==
    /\ PgRunning
    /\ pg' = [pg EXCEPT !.state = "stopped", !.why = "empty",
                        !.used = Append(@, pg.until)]
    /\ UNCHANGED PgRest

\* stop (a): the filter's limit is set and reached
PgStopLimit ==
    /\ PgRunning
    /\ \E n \in EventsPerRound, m \in TsChoices :
          /\ pg.limit # 0 /\ pg.total + n >= pg.limit
          /\ pg' = [pg EXCEPT !.state = "stopped", !.why = "limit",
                              !.used = Append(@, pg.until),
                              !.mins = Append(@, m), !.total = @ + n]
    /\ UNCHANGED PgRest

\* stop (b): the global limit is set and reached
PgStopGlobalLimit ==
    /\ PgRunning
    /\ \E n \in EventsPerRound, m \in TsChoices :
          /\ ~(pg.limit # 0 /\ pg.total + n >= pg.limit)
          /\ pg.globalLimit # 0 /\ pg.total + n >= pg.globalLimit
          /\ pg' = [pg EXCEPT !.state = "stopped", !.why = "globalLimit",
                              !.used = Append(@, pg.until),
                              !.mins = Append(@, m), !.total = @ + n]
    /\ UNCHANGED PgRest

PgGoesOn(n) ==
    /\ ~(pg.limit # 0 /\ pg.total + n >= pg.limit)
    /\ ~(pg.globalLimit # 0 /\ pg.total + n >= pg.globalLimit)

\* stop (c): since is set and the next until is below it
PgStopSince ==
    /\ PgRunning
    /\ \E n \in EventsPerRound, m \in TsChoices :
          LET next == NextUntil(m, pg.until)
          IN  /\ PgGoesOn(n)
              /\ pg.since # None /\ next < pg.since[1]
              /\ pg' = [pg EXCEPT !.state = "stopped", !.why = "since",
                                  !.used = Append(@, pg.until),
                                  !.computed = Append(@, next),
                                  !.mins = Append(@, m), !.total = @ + n]
    /\ UNCHANGED PgRest

\* no stop condition holds: the next round runs with the narrowed until
PgContinue ==
    /\ PgRunning
    /\ \E n \in EventsPerRound, m \in TsChoices :
          LET next == NextUntil(m, pg.until)
          IN  /\ PgGoesOn(n)
              /\ ~(pg.since # None /\ next < pg.since[1])
              /\ pg' = [pg EXCEPT !.until = Some(next),
                                  !.used = Append(@, pg.until),
                                  !.computed = Append(@, next),
                                  !.mins = Append(@, m), !.total = @ + n]
    /\ UNCHANGED PgRest

NextPaginate ==
    \/ PgRoundEmpty \/ PgStopLimit \/ PgStopGlobalLimit
    \/ PgStopSince \/ PgContinue

SpecPaginate == InitPaginate /\ [][NextPaginate]_vars

----------------------------------------------------------------------------
(* C10 *)

\* the until of every round is below the until of every earlier round
PgStrictProgress ==
    /\ \A a, b \in 1..Len(pg.used) :
          a < b => /\ pg.used[b] # None
                   /\ pg.used[a] # None => pg.used[b][1] < pg.used[a][1]
    /\ (pg.state = "running" /\ pg.used # <<>>)
          => /\ pg.until # None
             /\ \A a \in 1..Len(pg.used) :
                   pg.used[a] # None => pg.until[1] < pg.used[a][1]

\* with since set, every narrowed until that is used is at least since, so
\* the strictly decreasing untils allow only finitely many rounds; the stop
\* on since is taken exactly when the next until is below it
PgSinceBoundsRounds ==
    pg.since # None =>
        /\ \A k \in 2..Len(pg.used) : pg.used[k][1] >= pg.since[1]
        /\ Len(pg.used) >= 2
              => Len(pg.used) - 1 <= pg.used[2][1] - pg.since[1] + 1
        /\ pg.why = "since"
              => pg.computed[Len(pg.computed)] < pg.since[1]

PgExampleRun ==
    /\ pg.mins = <<100, 90, 90, 80>> /\ pg.since = Some(70)
    /\ pg.until0 = None /\ Len(pg.computed) = 4

\* C10 as stated: until strictly decreases from round to round, pagination
\* with a since bound stops after finitely many rounds, and for round minimum
\* timestamps [100,90,90,80] with since=70 the successive until values are
\* 99, 89, 79.
C10_PaginationAsStated ==
    /\ PgStrictProgress
    /\ PgSinceBoundsRounds
    /\ PgExampleRun
          => {pg.computed[i] : i \in 1..Len(pg.computed)} = {99, 89, 79}

\* C10 amended: as stated, but for round minimum timestamps [100,90,90,80]
\* with since=70 the successive until values are 99, 89, 88, 79: the third
\* round's minimum does not decrease, so until goes down by one.
C10_PaginationProgress ==
    /\ PgStrictProgress
    /\ PgSinceBoundsRounds
    /\ PgExampleRun => pg.computed = <<99, 89, 88, 79>>

\* the example run after its fourth round
C10_Witness ==
    /\ PgExampleRun
    /\ pg.state = "running"
    /\ pg.used = <<None, Some(99), Some(89), Some(88)>>
    /\ pg.until = Some(79)

====
